---- MODULE Spec2Model ----
(***************************************************************************)
(* A model of src/reversi.py: the ReversiBoard class (cells, turn marker,  *)
(* legality, move application, game end, copy).                            *)
(*                                                                         *)
(* Python objects live on a heap: `arrays` holds the numpy grids, `objs`   *)
(* the ReversiBoard objects, each naming its grid by address.  A call of a *)
(* method is one action; it records the call, its result and the heap it   *)
(* was made on, and the caller takes the result with Return before the     *)
(* next call.                                                              *)
(***************************************************************************)
EXTENDS Integers, Sequences, FiniteSets, TLC

VARIABLES
    arrays,   \* heap of numpy grids: arrays[a][<<row, col>>] \in {0, 1, 2}
    objs,     \* heap of ReversiBoard objects: [size, board (address), current_player]
    call,     \* the call that has just run: [op, obj, row, col, player]
    ret,      \* its outcome: [raised, val]
    pre,      \* the heap the call ran on: [arrays, objs]
    search    \* the locals of a running MCTSPlayer.get_move

vars == <<arrays, objs, call, ret, pre, search>>

-----------------------------------------------------------------------------
(* Bounds of the model *)

SmallSize == 4      \* board dimension of the small games
MaxMoves == 4       \* successful moves per board in Spec
QueryMoves == 4     \* successful moves per board in SpecQuery
RangeMoves == 3     \* successful moves per board in SpecRange
OpeningMoves == 1   \* successful moves per board in Spec8
CopyMoves == 3      \* pieces placed, summed over the boards, in SpecCopy

(* Program constants *)

DefaultSize == 8    \* def __init__(self, size=8)
Empty == 0
Black == 1
White == 2
None == 0           \* the default of the `player` parameter; players are 1 and 2

Players == {Black, White}

DIRECTIONS ==
    << <<0, 1>>, <<1, 1>>, <<1, 0>>, <<1, -1>>,
       <<0, -1>>, <<-1, -1>>, <<-1, 0>>, <<-1, 1>> >>

-----------------------------------------------------------------------------
(* numpy indexing *)

Cells(size) == (0 .. size - 1) \X (0 .. size - 1)

\* An index numpy accepts on an axis of length size: -size .. size-1.
IndexOK(i, size) == -size <= i /\ i < size

\* A negative index counts from the end of the axis.
Wrap(i, size) == IF i < 0 THEN i + size ELSE i

\* self.board[row][col], for indices numpy accepts
getitem(b, row, col) == b.cells[<<Wrap(row, b.size), Wrap(col, b.size)>>]

-----------------------------------------------------------------------------
(* ReversiBoard, as a value [size, cells, current_player] *)

\* InitialCells with the two colours exchanged
InitialCells_ColoursSwapped(size) ==
    LET mid == size \div 2
    IN  [x \in Cells(size) |->
            IF x = <<mid - 1, mid - 1>> \/ x = <<mid, mid>> THEN Black
            ELSE IF x = <<mid - 1, mid>> \/ x = <<mid, mid - 1>> THEN White
            ELSE Empty]

\* The grid __init__ builds
InitialCells(size) ==
    LET mid == size \div 2
    IN  [x \in Cells(size) |->
            IF x = <<mid - 1, mid - 1>> \/ x = <<mid, mid>> THEN White
            ELSE IF x = <<mid - 1, mid>> \/ x = <<mid, mid - 1>> THEN Black
            ELSE Empty]

get_opponent(player) == 3 - player

is_on_board(b, row, col) ==
    0 <= row /\ row < b.size /\ 0 <= col /\ col < b.size

count_pieces(b) ==
    << Cardinality({x \in Cells(b.size) : b.cells[x] = 1}),
       Cardinality({x \in Cells(b.size) : b.cells[x] = 2}) >>

\* ScanForOwn that walks on over empty cells
RECURSIVE ScanForOwn_OverEmpty(_, _, _, _, _, _)
ScanForOwn_OverEmpty(b, r, c, dx, dy, player) ==
    IF is_on_board(b, r, c)
    THEN IF b.cells[<<r, c>>] = player
         THEN TRUE
         ELSE ScanForOwn_OverEmpty(b, r + dx, c + dy, dx, dy, player)
    ELSE FALSE

\* The while loop of is_valid_move: walk until an empty cell or the edge,
\* TRUE as soon as a piece of player is met.
RECURSIVE ScanForOwn(_, _, _, _, _, _)
ScanForOwn(b, r, c, dx, dy, player) ==
    IF is_on_board(b, r, c) /\ b.cells[<<r, c>>] # 0
    THEN IF b.cells[<<r, c>>] = player
         THEN TRUE
         ELSE ScanForOwn(b, r + dx, c + dy, dx, dy, player)
    ELSE FALSE

\* One iteration of the direction loop of is_valid_move
DirectionCaptures(b, row, col, d, player) ==
    LET dx == d[1]
        dy == d[2]
        r == row + dx
        c == col + dy
    IN  /\ is_on_board(b, r, c)
        /\ b.cells[<<r, c>>] = get_opponent(player)
        /\ ScanForOwn(b, r + dx, c + dy, dx, dy, player)

\* The type of what a call of op hands back when it does not raise
ResultType(op) ==
    CASE op \in {"make_move", "is_valid_move", "is_game_over"} -> "bool"
      [] op = "get_valid_moves" -> "list"
      [] op = "copy" -> "ReversiBoard"
      [] op \in {"MinimaxPlayer.get_move", "MCTSPlayer.get_move"} -> "tuple"
      [] op \in {"minimax", "evaluate"} -> "int"
      [] OTHER -> "NoneType"

\* What the caller gets from a call of op that came to out: the type of it,
\* and the value or the exception
Outcome(op, out) ==
    [type |-> IF out.raised THEN "IndexError" ELSE ResultType(op),
     raised |-> out.raised, val |-> out.val]

Returned(v) == [raised |-> FALSE, val |-> v]
IndexError == [raised |-> TRUE, val |-> "IndexError"]

is_valid_move(b, row, col, player) ==
    LET p == IF player = None THEN b.current_player ELSE player
    IN  IF ~(IndexOK(row, b.size) /\ IndexOK(col, b.size))
        THEN IndexError
        ELSE IF getitem(b, row, col) # 0
        THEN Returned(FALSE)
        ELSE Returned(\E i \in 1 .. Len(DIRECTIONS) :
                          DirectionCaptures(b, row, col, DIRECTIONS[i], p))

\* ScanOrder with the loops nested the other way round (column by column)
ScanOrder_ColumnMajor(size) ==
    [k \in 1 .. size * size |-> <<(k - 1) % size, (k - 1) \div size>>]

\* The cells in the order of the two nested loops of get_valid_moves: row by
\* row, each row from column 0 on
ScanOrder(size) ==
    [k \in 1 .. size * size |-> <<(k - 1) \div size, (k - 1) % size>>]

\* The list the loops build: the cells is_valid_move accepts for player, in
\* the order of the scan
ValidMovesOf(b, player) ==
    SelectSeq(ScanOrder(b.size),
              LAMBDA x : is_valid_move(b, x[1], x[2], player).val)

get_valid_moves(b, player) ==
    ValidMovesOf(b, IF player = None THEN b.current_player ELSE player)

\* The inner while loop of make_move: the opponent pieces from (r, c) on
RECURSIVE TempFlip(_, _, _, _, _, _)
TempFlip(cells, b, r, c, d, opponent) ==
    IF is_on_board(b, r, c) /\ cells[<<r, c>>] = opponent
    THEN << <<r, c>> >> \o TempFlip(cells, b, r + d[1], c + d[2], d, opponent)
    ELSE << >>

\* PiecesToFlip without the test of the piece that ends the run: a run that
\* meets an empty cell or the edge is taken as captured.
RECURSIVE PiecesToFlip_AnyRun(_, _, _, _, _, _)
PiecesToFlip_AnyRun(cells, b, row, col, player, i) ==
    IF i > Len(DIRECTIONS)
    THEN << >>
    ELSE LET d == DIRECTIONS[i]
         IN  TempFlip(cells, b, row + d[1], col + d[2], d, get_opponent(player))
                 \o PiecesToFlip_AnyRun(cells, b, row, col, player, i + 1)

\* The direction loop of make_move, from direction i on, scanning `cells`
\* (the grid with the new piece already placed)
RECURSIVE PiecesToFlip(_, _, _, _, _, _)
PiecesToFlip(cells, b, row, col, player, i) ==
    IF i > Len(DIRECTIONS)
    THEN << >>
    ELSE LET d == DIRECTIONS[i]
             temp_flip == TempFlip(cells, b, row + d[1], col + d[2], d,
                                   get_opponent(player))
             r == row + (Len(temp_flip) + 1) * d[1]
             c == col + (Len(temp_flip) + 1) * d[2]
             rest == PiecesToFlip(cells, b, row, col, player, i + 1)
         IN  IF is_on_board(b, r, c) /\ cells[<<r, c>>] = player
             THEN temp_flip \o rest
             ELSE rest

SeqRange(s) == {s[i] : i \in 1 .. Len(s)}

\* FlippedCells without the placement of the new piece
FlippedCells_NoPlacement(b, row, col, p) ==
    LET flip == SeqRange(PiecesToFlip(b.cells, b, row, col, p, 1))
    IN  [x \in Cells(b.size) |-> IF x \in flip THEN p ELSE b.cells[x]]

\* The grid make_move leaves: the piece placed, then the captured pieces,
\* collected over all directions, turned
FlippedCells(b, row, col, p) ==
    LET at == <<Wrap(row, b.size), Wrap(col, b.size)>>
        placed == [b.cells EXCEPT ![at] = p]
        flip == SeqRange(PiecesToFlip(placed, b, row, col, p, 1))
    IN  [x \in Cells(b.size) |-> IF x \in flip THEN p ELSE placed[x]]

\* ApplyMove with the turn toggled from current_player instead of set from
\* the mover
ApplyMove_TogglesTurn(b, row, col, p) ==
    [b EXCEPT !.cells = FlippedCells(b, row, col, p),
              !.current_player = get_opponent(b.current_player)]

\* The board make_move leaves once the move is found valid
ApplyMove(b, row, col, p) ==
    [b EXCEPT !.cells = FlippedCells(b, row, col, p),
              !.current_player = get_opponent(p)]

\* make_move with the validity test made for current_player instead of the
\* player given
make_move_ChecksCurrentPlayer(b, row, col, player) ==
    LET p == IF player = None THEN b.current_player ELSE player
        valid == is_valid_move(b, row, col, None)
    IN  IF valid.raised
        THEN [raised |-> TRUE, val |-> valid.val, board |-> b]
        ELSE IF ~valid.val
        THEN [raised |-> FALSE, val |-> FALSE, board |-> b]
        ELSE [raised |-> FALSE, val |-> TRUE, board |-> ApplyMove(b, row, col, p)]

\* make_move: the outcome and the board it leaves
make_move(b, row, col, player) ==
    LET p == IF player = None THEN b.current_player ELSE player
        valid == is_valid_move(b, row, col, p)
    IN  IF valid.raised
        THEN [raised |-> TRUE, val |-> valid.val, board |-> b]
        ELSE IF ~valid.val
        THEN [raised |-> FALSE, val |-> FALSE, board |-> b]
        ELSE [raised |-> FALSE, val |-> TRUE, board |-> ApplyMove(b, row, col, p)]

\* has_valid_moves that drops its argument and asks for current_player
has_valid_moves_OfCurrentPlayer(b, player) == Len(get_valid_moves(b, None)) > 0

has_valid_moves(b, player) == Len(get_valid_moves(b, player)) > 0

is_game_over(b) == ~(has_valid_moves(b, 1) \/ has_valid_moves(b, 2))

-----------------------------------------------------------------------------
(* The heap *)

\* The board object o of heap (A, O) as a value
BoardIn(A, O, o) ==
    [size |-> O[o].size, cells |-> A[O[o].board],
     current_player |-> O[o].current_player]

Board(o) == BoardIn(arrays, objs, o)
PreBoard(o) == BoardIn(pre.arrays, pre.objs, o)

NoCall == [op |-> "none", obj |-> 0, row |-> 0, col |-> 0, player |-> 0]
NoRet == [type |-> "NoneType", raised |-> FALSE, val |-> "none"]
NoPre == [arrays |-> << >>, objs |-> << >>]
NoSearch == [pc |-> "none"]

Idle == call.op = "none"

Record(op, o, row, col, player, outcome) ==
    /\ call' = [op |-> op, obj |-> o, row |-> row, col |-> col, player |-> player]
    /\ ret' = Outcome(op, outcome)
    /\ pre' = [arrays |-> arrays, objs |-> objs]
    /\ UNCHANGED search

\* ReversiBoard(size): one object over one fresh grid
Construct(size) ==
    /\ arrays = << InitialCells(size) >>
    /\ objs = << [size |-> size, board |-> 1, current_player |-> Black] >>
    /\ call = NoCall
    /\ ret = NoRet
    /\ pre = NoPre
    /\ search = NoSearch

Pieces(o) == count_pieces(Board(o))[1] + count_pieces(Board(o))[2]

\* deepcopy that hands back the array it was given
deepcopy_SameArray(A, a) == [arrays |-> A, addr |-> a]

\* deepcopy(array a) on heap A: a new array with the same contents
deepcopy(A, a) == [arrays |-> Append(A, A[a]), addr |-> Len(A) + 1]

-----------------------------------------------------------------------------
(* The calls.  Each runs the whole method on the heap and records the call, *)
(* its outcome and the heap it ran on.                                      *)

\* o.make_move(row, col, player): writes through o's grid reference
MakeMove(o, row, col, player) ==
    LET out == make_move(Board(o), row, col, player)
    IN  /\ arrays' = [arrays EXCEPT ![objs[o].board] = out.board.cells]
        /\ objs' = [objs EXCEPT ![o].current_player = out.board.current_player]
        /\ Record("make_move", o, row, col, player,
                  [raised |-> out.raised, val |-> out.val])

\* o.is_valid_move(row, col, player)
IsValidMove(o, row, col, player) ==
    /\ Record("is_valid_move", o, row, col, player,
              is_valid_move(Board(o), row, col, player))
    /\ UNCHANGED <<arrays, objs>>

\* o.get_valid_moves(player)
GetValidMoves(o, player) ==
    /\ Record("get_valid_moves", o, 0, 0, player,
              Returned(get_valid_moves(Board(o), player)))
    /\ UNCHANGED <<arrays, objs>>

\* o.is_game_over()
IsGameOver(o) ==
    /\ Record("is_game_over", o, 0, 0, None, Returned(is_game_over(Board(o))))
    /\ UNCHANGED <<arrays, objs>>

\* o.current_player = player
SetCurrentPlayer(o, player) ==
    /\ objs' = [objs EXCEPT ![o].current_player = player]
    /\ Record("set_current_player", o, 0, 0, player, NoRet)
    /\ UNCHANGED arrays

\* o.copy(): a new object over a grid of its own.  ReversiBoard(self.size)
\* allocates the initial grid, which the deep copy then replaces.
Copy(o) ==
    LET constructed == Append(arrays, InitialCells(objs[o].size))
        copied == deepcopy(constructed, objs[o].board)
    IN  /\ arrays' = copied.arrays
        /\ objs' = Append(objs, [size |-> objs[o].size,
                                 board |-> copied.addr,
                                 current_player |-> objs[o].current_player])
        /\ Record("copy", o, 0, 0, None, Returned(Len(objs) + 1))

\* The pass of the turn loop: while the game is not over, a side with no
\* valid move hands the turn to the other side.
\* Pass without handing the turn over
Pass_KeepsTurn(o) ==
    /\ ~is_game_over(Board(o))
    /\ get_valid_moves(Board(o), None) = << >>
    /\ Record("pass", o, 0, 0, None, NoRet)
    /\ UNCHANGED <<arrays, objs>>

Pass(o) ==
    /\ ~is_game_over(Board(o))
    /\ get_valid_moves(Board(o), None) = << >>
    /\ objs' = [objs EXCEPT ![o].current_player = 3 - objs[o].current_player]
    /\ Record("pass", o, 0, 0, None, NoRet)
    /\ UNCHANGED arrays

\* The caller takes the result; the next call can be made
Return ==
    /\ ~Idle
    /\ search.pc = "none"
    /\ call' = NoCall
    /\ ret' = NoRet
    /\ pre' = NoPre
    /\ UNCHANGED <<arrays, objs, search>>

-----------------------------------------------------------------------------
(* The callers *)

PlayerArgs == {None} \cup Players

OnBoard(o) == 0 .. objs[o].size - 1

Succeeds(o, row, col, player) ==
    LET v == is_valid_move(Board(o), row, col, player)
    IN  ~v.raised /\ v.val

\* Any make_move call with coordinates in coords; a call that places a piece
\* is made only while the board holds fewer than 4 + limit pieces.
CallMakeMove(o, coords, limit) ==
    /\ Idle
    /\ \E row \in coords, col \in coords, player \in PlayerArgs :
          /\ Succeeds(o, row, col, player) => Pieces(o) < 4 + limit
          /\ MakeMove(o, row, col, player)

\* The make_move calls that place a piece
CallLegalMove(o, limit) ==
    /\ Idle
    /\ Pieces(o) < 4 + limit
    /\ \E row \in OnBoard(o), col \in OnBoard(o), player \in PlayerArgs :
          /\ Succeeds(o, row, col, player)
          /\ MakeMove(o, row, col, player)

CallIsValidMove(o, coords) ==
    /\ Idle
    /\ \E row \in coords, col \in coords, player \in PlayerArgs :
          IsValidMove(o, row, col, player)

CallGetValidMoves(o) ==
    /\ Idle
    /\ \E player \in PlayerArgs : GetValidMoves(o, player)

CallIsGameOver(o) == Idle /\ IsGameOver(o)

CallSetCurrentPlayer(o) ==
    /\ Idle
    /\ \E player \in Players : SetCurrentPlayer(o, player)

CallPass(o) == Idle /\ Pass(o)

-----------------------------------------------------------------------------
(* Spec: make_move with on-board coordinates, and passes, on a small board *)

Init == Construct(SmallSize)

Next ==
    \/ CallMakeMove(1, OnBoard(1), MaxMoves)
    \/ CallPass(1)
    \/ Return

Spec == Init /\ [][Next]_vars

(* SpecQuery: the queries, on the boards a few moves build *)

NextQuery ==
    \/ CallLegalMove(1, QueryMoves)
    \/ CallSetCurrentPlayer(1)
    \/ CallIsValidMove(1, OnBoard(1))
    \/ CallGetValidMoves(1)
    \/ CallIsGameOver(1)
    \/ Return

SpecQuery == Init /\ [][NextQuery]_vars

(* SpecRange: is_valid_move and make_move with coordinates on and off the *)
(* board: -(size+1) .. size on each axis                                  *)

Wide(o) == -(objs[o].size + 1) .. objs[o].size

NextRange ==
    \/ CallMakeMove(1, Wide(1), RangeMoves)
    \/ CallIsValidMove(1, Wide(1))
    \/ Return

SpecRange == Init /\ [][NextRange]_vars

(* Spec8: the opening of the standard 8x8 game *)

Init8 == Construct(DefaultSize)

Next8 ==
    \/ CallMakeMove(1, OnBoard(1), OpeningMoves)
    \/ Return

Spec8 == Init8 /\ [][Next8]_vars

(* SpecCopy: a board and its copy, each moved on and re-marked *)

Objects == DOMAIN objs

RECURSIVE PlacedUpTo(_)
PlacedUpTo(o) == IF o = 0 THEN 0 ELSE (Pieces(o) - 4) + PlacedUpTo(o - 1)

CallCopy ==
    /\ Idle
    /\ Len(objs) = 1
    /\ Copy(1)

CallLegalMoveOnAny ==
    /\ Idle
    /\ PlacedUpTo(Len(objs)) < CopyMoves
    /\ \E o \in Objects :
       \E row \in OnBoard(o), col \in OnBoard(o), player \in PlayerArgs :
          /\ Succeeds(o, row, col, player)
          /\ MakeMove(o, row, col, player)

CallSetCurrentPlayerOnAny ==
    /\ Idle
    /\ \E o \in Objects, player \in Players : SetCurrentPlayer(o, player)

NextCopy ==
    \/ CallCopy
    \/ CallLegalMoveOnAny
    \/ CallSetCurrentPlayerOnAny
    \/ Return

SpecCopy == Init /\ [][NextCopy]_vars

-----------------------------------------------------------------------------
(* The rules of the game, stated on their own: what the claims compare the *)
(* code against.                                                           *)

\* The cell k steps from (row, col) in direction d
Step(row, col, d, k) == <<row + k * d[1], col + k * d[2]>>

\* In direction d from (row, col): exactly k >= 1 pieces of the opponent of p,
\* then a piece of p
Bracketed(b, row, col, d, k, p) ==
    /\ \A i \in 1 .. k :
          /\ Step(row, col, d, i) \in Cells(b.size)
          /\ b.cells[Step(row, col, d, i)] = 3 - p
    /\ Step(row, col, d, k + 1) \in Cells(b.size)
    /\ b.cells[Step(row, col, d, k + 1)] = p

Dirs == {DIRECTIONS[i] : i \in 1 .. Len(DIRECTIONS)}

\* The cells a piece of p on (row, col) captures
Captured(b, row, col, p) ==
    UNION { {Step(row, col, d, i) : i \in 1 .. k} :
            <<d, k>> \in {dk \in Dirs \X (1 .. b.size) :
                             Bracketed(b, row, col, dk[1], dk[2], p)} }

\* The move (row, col) is legal for p
Legal(b, row, col, p) ==
    /\ b.cells[<<row, col>>] = Empty
    /\ Captured(b, row, col, p) # {}

\* The call under report
Before == PreBoard(call.obj)
After == Board(call.obj)
Mover == IF call.player = None THEN Before.current_player ELSE call.player
CallOnBoard == <<call.row, call.col>> \in Cells(Before.size)
HeapUnchanged == arrays = pre.arrays /\ objs = pre.objs
MoveMade == call.op = "make_move" /\ ~ret.raised /\ ret.val

\* In direction d from the cell of the call: opponent pieces of the mover that
\* run into an empty cell or the edge
Unbracketed(d) ==
    /\ Step(call.row, call.col, d, 1) \in Cells(Before.size)
    /\ Before.cells[Step(call.row, call.col, d, 1)] = 3 - Mover
    /\ \A k \in 1 .. Before.size : ~Bracketed(Before, call.row, call.col, d, k, Mover)

-----------------------------------------------------------------------------
(* Claims *)

\* C1: a make_move on an on-board cell that is_valid_move rejects returns
\* false and leaves every cell and current_player as they were.
C1_InvalidMoveRefused ==
    (/\ call.op = "make_move"
     /\ CallOnBoard
     /\ ~is_valid_move(Before, call.row, call.col, Mover).val)
    => (~ret.raised /\ ret.val = FALSE /\ HeapUnchanged)

\* C1 witness: a refused move on an empty cell next to an opponent piece, by
\* the player whose turn it is not.
C1_Witness ==
    /\ call.op = "make_move"
    /\ CallOnBoard
    /\ ~ret.raised /\ ret.val = FALSE
    /\ Before.cells[<<call.row, call.col>>] = Empty
    /\ call.player = 3 - Before.current_player
    /\ \E d \in Dirs : Unbracketed(d)

\* C2: a successful make_move puts the mover on the cell, turns exactly the
\* bracketed runs of the pre-move board (a non-empty set of opponent pieces)
\* and changes no other cell.
C2_FlipsExactlyBracketedRuns ==
    (MoveMade /\ CallOnBoard)
    => LET flips == Captured(Before, call.row, call.col, Mover)
       IN  /\ flips # {}
           /\ After.cells[<<call.row, call.col>>] = Mover
           /\ \A x \in Cells(Before.size) :
                 /\ (Before.cells[x] = 3 - Mover /\ After.cells[x] = Mover)
                        <=> x \in flips
                 /\ (x \notin flips /\ x # <<call.row, call.col>>)
                        => After.cells[x] = Before.cells[x]

\* C2 witness: a move that turns a run of two and leaves alone an opponent
\* run that ends at an empty cell or the edge.
C2_Witness ==
    /\ MoveMade /\ CallOnBoard
    /\ \E d \in Dirs : Bracketed(Before, call.row, call.col, d, 2, Mover)
    /\ \E d \in Dirs : Unbracketed(d)

\* C4: after a successful make_move by p, current_player is 3 - p.
C4_TurnGoesToOpponent ==
    MoveMade => After.current_player = 3 - Mover

\* C4 witness: a successful move by the player whose turn it was not.
C4_Witness ==
    /\ MoveMade
    /\ call.player # None
    /\ call.player # Before.current_player

\* C5: a successful make_move adds exactly one piece to the total, and no
\* call empties an occupied cell.
C5_OnePieceMore ==
    /\ MoveMade =>
          count_pieces(After)[1] + count_pieces(After)[2]
              = count_pieces(Before)[1] + count_pieces(Before)[2] + 1
    /\ ~Idle =>
          \A x \in Cells(Before.size) :
              Before.cells[x] # Empty => After.cells[x] # Empty

\* C5 witness: a successful move that turns pieces in two directions.
C5_Witness ==
    /\ MoveMade /\ CallOnBoard
    /\ Cardinality({d \in Dirs :
           \E k \in 1 .. Before.size :
               Bracketed(Before, call.row, call.col, d, k, Mover)}) >= 2

\* C3: is_valid_move on an on-board cell answers true exactly when the cell
\* is empty and some direction holds a run of opponent pieces followed by a
\* piece of the player; it changes neither a cell nor current_player.
C3_ValidIffEmptyAndBracketing ==
    (call.op = "is_valid_move" /\ CallOnBoard)
    => /\ ~ret.raised
       /\ ret.val = (/\ Before.cells[<<call.row, call.col>>] = Empty
                     /\ \E d \in Dirs : \E k \in 1 .. Before.size :
                           Bracketed(Before, call.row, call.col, d, k, Mover))
       /\ HeapUnchanged

\* C3 witness: a cell found valid through a run of two, for the player whose
\* turn it is not, while another direction holds an opponent run that ends
\* at an empty cell or the edge.
C3_Witness ==
    /\ call.op = "is_valid_move" /\ CallOnBoard
    /\ ~ret.raised /\ ret.val
    /\ call.player = 3 - Before.current_player
    /\ \E d \in Dirs : Bracketed(Before, call.row, call.col, d, 2, Mover)
    /\ \E d \in Dirs : Unbracketed(d)

\* Some cell is legal for p
SomeLegal(b, p) == \E x \in Cells(b.size) : Legal(b, x[1], x[2], p)

\* C6: is_game_over answers true exactly when get_valid_moves is empty for
\* Black and for White, whoever is to move and whether or not the board is
\* full.
C6_GameOverIffNoMoves ==
    call.op = "is_game_over"
    => /\ ret.val = (/\ get_valid_moves(Before, Black) = << >>
                     /\ get_valid_moves(Before, White) = << >>)
       /\ ret.val = (~SomeLegal(Before, Black) /\ ~SomeLegal(Before, White))
       /\ ret.val = is_game_over([Before EXCEPT
                                     !.current_player = 3 - Before.current_player])

\* C6 witness: the answer true on a board that still has empty cells.
C6_Witness ==
    /\ call.op = "is_game_over"
    /\ ret.val
    /\ \E x \in Cells(Before.size) : Before.cells[x] = Empty

\* Row-major order on cells
RowMajorBefore(x, y) == x[1] < y[1] \/ (x[1] = y[1] /\ x[2] < y[2])

\* C7: get_valid_moves returns the cells is_valid_move accepts for the player
\* (current_player when none is given), each once, rows ascending and columns
\* ascending within a row, and changes nothing.
C7_ValidMovesRowMajor ==
    call.op = "get_valid_moves"
    => /\ SeqRange(ret.val)
              = {x \in Cells(Before.size) :
                    is_valid_move(Before, x[1], x[2], Mover).val}
       /\ \A i \in 1 .. Len(ret.val) - 1 : RowMajorBefore(ret.val[i], ret.val[i + 1])
       /\ HeapUnchanged

\* C7 witness: a list of three or more moves over two or more rows, asked
\* without a player argument.
C7_Witness ==
    /\ call.op = "get_valid_moves"
    /\ call.player = None
    /\ Len(ret.val) >= 3
    /\ \E i, j \in 1 .. Len(ret.val) :
          ret.val[i][1] # ret.val[j][1] /\ ret.val[i][2] # ret.val[j][2]

\* C8: a call of is_valid_move or make_move with a coordinate off the board
\* raises, and neither places nor turns a piece.
C8_OffBoardCallRaises ==
    (call.op \in {"is_valid_move", "make_move"} /\ ~CallOnBoard)
    => (ret.raised /\ HeapUnchanged)

\* C8, the worst of it: a make_move with a negative coordinate that returned
\* true, having placed a piece on the cell the index wraps to.
C8_WrappedMovePlaced ==
    /\ MoveMade
    /\ ~CallOnBoard
    /\ Before.cells[<<Wrap(call.row, Before.size), Wrap(call.col, Before.size)>>] = Empty
    /\ After.cells[<<Wrap(call.row, Before.size), Wrap(call.col, Before.size)>>] = Mover

\* The opening position and the position after Black's D3, cell by cell
Opening8 ==
    [x \in (0 .. 7) \X (0 .. 7) |->
        IF x \in {<<3, 3>>, <<4, 4>>} THEN White
        ELSE IF x \in {<<3, 4>>, <<4, 3>>} THEN Black
        ELSE Empty]

AfterD3 ==
    [x \in (0 .. 7) \X (0 .. 7) |->
        IF x \in {<<2, 3>>, <<3, 3>>, <<3, 4>>, <<4, 3>>} THEN Black
        ELSE IF x = <<4, 4>> THEN White
        ELSE Empty]

\* C9: the 8x8 board starts with White on (3,3) and (4,4), Black on (3,4)
\* and (4,3), Black to move; Black's make_move(2,3) then succeeds and leaves
\* (2,3) and (3,3) Black, nothing else changed, 4 Black and 1 White, White
\* to move.
C9_OpeningD3 ==
    /\ Pieces(1) = 4
          => Board(1) = [size |-> 8, cells |-> Opening8, current_player |-> Black]
    /\ (/\ call.op = "make_move"
        /\ call.row = 2 /\ call.col = 3
        /\ Mover = Black
        /\ Before.cells = Opening8)
          => /\ ~ret.raised /\ ret.val = TRUE
             /\ After.cells = AfterD3
             /\ count_pieces(After) = <<4, 1>>
             /\ After.current_player = White

\* C9 witness: Black's make_move(2,3) on the opening position has returned.
C9_Witness ==
    /\ call.op = "make_move"
    /\ call.row = 2 /\ call.col = 3
    /\ call.player = Black
    /\ Before.cells = Opening8
    /\ Before.current_player = Black
    /\ ret.val = TRUE

\* C10: copy returns a board with the size, cells and current_player of its
\* source, and a make_move or an assignment of current_player on one board
\* leaves every other board as it was.
C10_CopyIsIndependent ==
    /\ call.op = "copy"
          => /\ Board(ret.val) = Before
             /\ \A o \in DOMAIN pre.objs : Board(o) = PreBoard(o)
    /\ call.op \in {"make_move", "set_current_player"}
          => \A o \in Objects \ {call.obj} : Board(o) = PreBoard(o)

\* C10 witness: after a move on the source and a copy, a move on the copy has
\* succeeded, and the two boards differ.
C10_Witness ==
    /\ MoveMade
    /\ call.obj = 2
    /\ PreBoard(1).cells = PreBoard(2).cells
    /\ Pieces(1) = 5
    /\ Pieces(2) = 6

-----------------------------------------------------------------------------
(* The Minimax engine: MinimaxPlayer.  A search works on the heap it is    *)
(* given: every copy() allocates, every make_move writes through the grid  *)
(* reference of the board it is called on, and a board_copy that goes out  *)
(* of scope is freed.  A search hands back its result, the heap it leaves, *)
(* the depth arguments its minimax invocations received and the number of  *)
(* evaluate calls it made.                                                 *)

\* float('inf'): above every value evaluate returns
Infinity == 1000000

\* No move: the None a get_move returns
NoMove == << >>

weights ==
    << << 120, -20, 20,  5,  5, 20, -20, 120 >>,
       << -20, -40, -5, -5, -5, -5, -40, -20 >>,
       <<  20,  -5, 15,  3,  3, 15,  -5,  20 >>,
       <<   5,  -5,  3,  3,  3,  3,  -5,   5 >>,
       <<   5,  -5,  3,  3,  3,  3,  -5,   5 >>,
       <<  20,  -5, 15,  3,  3, 15,  -5,  20 >>,
       << -20, -40, -5, -5, -5, -5, -40, -20 >>,
       << 120, -20, 20,  5,  5, 20, -20, 120 >> >>

max(a, b) == IF a >= b THEN a ELSE b
min(a, b) == IF a <= b THEN a ELSE b

\* MinimaxPlayer(player_number, depth)
MinimaxPlayer(player_number, depth) ==
    [player_number |-> player_number, depth |-> depth]

get_winner(b) ==
    LET n == count_pieces(b)
    IN  IF n[1] > n[2] THEN 1 ELSE IF n[2] > n[1] THEN 2 ELSE 0

\* np.sum(self.weights[mask]) for the mask of player's pieces, over the
\* cells numbered lo .. hi, row by row
RECURSIVE SumWeightsIn(_, _, _, _)
SumWeightsIn(b, lo, hi, player) ==
    IF lo = hi
    THEN IF b.cells[<<lo \div b.size, lo % b.size>>] = player
         THEN weights[(lo \div b.size) + 1][(lo % b.size) + 1]
         ELSE 0
    ELSE SumWeightsIn(b, lo, (lo + hi) \div 2, player)
            + SumWeightsIn(b, (lo + hi) \div 2 + 1, hi, player)

\* evaluate(board).  Indexing the weights with a mask of another shape
\* raises IndexError.
evaluate(self, b) ==
    IF is_game_over(b)
    THEN LET winner == get_winner(b)
         IN  Returned(IF winner = self.player_number THEN 10000
                      ELSE IF winner = 0 THEN 0
                      ELSE -10000)
    ELSE IF b.size # Len(weights)
    THEN IndexError
    ELSE LET my_score == SumWeightsIn(b, 0, b.size * b.size - 1, self.player_number)
             opponent_score == SumWeightsIn(b, 0, b.size * b.size - 1,
                                           3 - self.player_number)
             my_mobility == Len(get_valid_moves(b, self.player_number))
             opponent_mobility == Len(get_valid_moves(b, 3 - self.player_number))
             positional_weight == 10
             mobility_weight == 5
         IN  Returned(positional_weight * (my_score - opponent_score)
                         + mobility_weight * (my_mobility - opponent_mobility))

\* The heap as a value
Heap == [arrays |-> arrays, objs |-> objs]

\* board.copy() on heap H: the new object is the last of the heap it leaves
copy(H, board) ==
    LET constructed == Append(H.arrays, InitialCells(H.objs[board].size))
        copied == deepcopy(constructed, H.objs[board].board)
    IN  [arrays |-> copied.arrays,
         objs |-> Append(H.objs, [size |-> H.objs[board].size,
                                  board |-> copied.addr,
                                  current_player |-> H.objs[board].current_player])]

\* board.make_move(row, col, player) on heap H
make_move_in(H, board, row, col, player) ==
    LET out == make_move(BoardIn(H.arrays, H.objs, board), row, col, player)
    IN  [arrays |-> [H.arrays EXCEPT ![H.objs[board].board] = out.board.cells],
         objs |-> [H.objs EXCEPT ![board].current_player = out.board.current_player]]

\* The heap once the objects allocated since H0 are out of scope
Release(H, H0) ==
    [arrays |-> SubSeq(H.arrays, 1, Len(H0.arrays)),
     objs |-> SubSeq(H.objs, 1, Len(H0.objs))]

Searched(raised, val, H, depths, evals) ==
    [raised |-> raised, val |-> val, heap |-> H, depths |-> depths,
     evals |-> evals]

\* The heap after board.copy() and make_move(move, player) on the copy, which
\* is the last object of the heap
Child(H, board, move, player) ==
    make_move_in(copy(H, board), Len(H.objs) + 1, move[1], move[2], player)

RECURSIVE minimax(_, _, _, _, _, _, _)
RECURSIVE MoveLoop(_, _, _, _, _, _, _, _, _, _, _, _)

\* MoveLoopBody with the cutoff test turned round: it breaks while
\* alpha <= beta
MoveLoopBody_InvertedCutoff(self, H, board, valid_moves, i, depth, alpha, beta, best, is_maximizing, depths, evals, sub) ==
    LET left == Release(sub.heap, H)
        seen == depths \cup sub.depths
        count == evals + sub.evals
    IN  IF sub.raised
        THEN Searched(TRUE, sub.val, left, seen, count)
        ELSE IF is_maximizing
        THEN LET max_eval == max(best, sub.val)
                 raised_alpha == max(alpha, sub.val)
             IN  IF raised_alpha <= beta
                 THEN Searched(FALSE, max_eval, left, seen, count)
                 ELSE MoveLoop(self, left, board, valid_moves, i + 1, depth,
                               raised_alpha, beta, max_eval, is_maximizing,
                               seen, count)
        ELSE LET min_eval == min(best, sub.val)
                 lowered_beta == min(beta, sub.val)
             IN  IF alpha <= lowered_beta
                 THEN Searched(FALSE, min_eval, left, seen, count)
                 ELSE MoveLoop(self, left, board, valid_moves, i + 1, depth,
                               alpha, lowered_beta, min_eval, is_maximizing,
                               seen, count)

\* One turn of the loop over valid_moves of minimax, sub being what minimax
\* returned for move i: the best value and the window are updated, and the
\* loop breaks once beta <= alpha
MoveLoopBody(self, H, board, valid_moves, i, depth, alpha, beta, best, is_maximizing, depths, evals, sub) ==
    LET left == Release(sub.heap, H)
        seen == depths \cup sub.depths
        count == evals + sub.evals
    IN  IF sub.raised
        THEN Searched(TRUE, sub.val, left, seen, count)
        ELSE IF is_maximizing
        THEN LET max_eval == max(best, sub.val)
                 raised_alpha == max(alpha, sub.val)
             IN  IF beta <= raised_alpha
                 THEN Searched(FALSE, max_eval, left, seen, count)
                 ELSE MoveLoop(self, left, board, valid_moves, i + 1, depth,
                               raised_alpha, beta, max_eval, is_maximizing,
                               seen, count)
        ELSE LET min_eval == min(best, sub.val)
                 lowered_beta == min(beta, sub.val)
             IN  IF lowered_beta <= alpha
                 THEN Searched(FALSE, min_eval, left, seen, count)
                 ELSE MoveLoop(self, left, board, valid_moves, i + 1, depth,
                               alpha, lowered_beta, min_eval, is_maximizing,
                               seen, count)

\* The loop over valid_moves of minimax, from move i on, in its maximizing
\* or its minimizing branch: best is max_eval or min_eval.
MoveLoop(self, H, board, valid_moves, i, depth, alpha, beta, best, is_maximizing, depths, evals) ==
    IF i > Len(valid_moves)
    THEN Searched(FALSE, best, H, depths, evals)
    ELSE MoveLoopBody(self, H, board, valid_moves, i, depth, alpha, beta,
                      best, is_maximizing, depths, evals,
                      minimax(self,
                              Child(H, board, valid_moves[i],
                                    IF is_maximizing THEN self.player_number
                                    ELSE 3 - self.player_number),
                              Len(H.objs) + 1, depth - 1, alpha, beta,
                              ~is_maximizing))

\* What minimax returns for a pass, sub being what it returned for the
\* board handed to the other side
Passed(H, depth, sub) ==
    Searched(sub.raised, sub.val, Release(sub.heap, H),
             {depth} \cup sub.depths, sub.evals)

\* The heap after board.copy() with current_player of the copy, the last
\* object, set to player
CopyFor(H, board, player) ==
    [copy(H, board) EXCEPT !.objs[Len(H.objs) + 1].current_player = player]

\* PassTurn with the depth handed on as it is
PassTurn_KeepsDepth(self, H, board, depth, alpha, beta, is_maximizing, current_player) ==
    Passed(H, depth,
           minimax(self, CopyFor(H, board, 3 - current_player),
                   Len(H.objs) + 1, depth, alpha, beta, ~is_maximizing))

\* The branch of minimax for a side without a valid move: the turn passes
PassTurn(self, H, board, depth, alpha, beta, is_maximizing, current_player) ==
    Passed(H, depth,
           minimax(self, CopyFor(H, board, 3 - current_player),
                   Len(H.objs) + 1, depth - 1, alpha, beta, ~is_maximizing))

\* What minimax returns at the horizon or at the end of the game, e being
\* what evaluate returned
Leaf(H, depth, e) == Searched(e.raised, e.val, H, {depth}, 1)

\* minimax below the test of depth and is_game_over, valid_moves being
\* those of current_player
Ply(self, H, board, depth, alpha, beta, is_maximizing, current_player, valid_moves) ==
    IF Len(valid_moves) = 0
    THEN PassTurn(self, H, board, depth, alpha, beta, is_maximizing,
                  current_player)
    ELSE MoveLoop(self, H, board, valid_moves, 1, depth, alpha, beta,
                  IF is_maximizing THEN -Infinity ELSE Infinity,
                  is_maximizing, {depth}, 0)

\* minimax(board, depth, alpha, beta, is_maximizing)
minimax(self, H, board, depth, alpha, beta, is_maximizing) ==
    IF depth = 0 \/ is_game_over(BoardIn(H.arrays, H.objs, board))
    THEN Leaf(H, depth, evaluate(self, BoardIn(H.arrays, H.objs, board)))
    ELSE Ply(self, H, board, depth, alpha, beta, is_maximizing,
             IF is_maximizing THEN self.player_number
             ELSE 3 - self.player_number,
             get_valid_moves(BoardIn(H.arrays, H.objs, board),
                             IF is_maximizing THEN self.player_number
                             ELSE 3 - self.player_number))

RECURSIVE RootLoop(_, _, _, _, _, _, _, _, _, _, _)

\* RootLoopBody with a move that equals the best so far taking its place
RootLoopBody_LaterMoveWinsTies(self, H, board, valid_moves, i, best_value, best_move, alpha, values, depths, evals, sub) ==
    LET left == Release(sub.heap, H)
        seen == depths \cup sub.depths
        count == evals + sub.evals
    IN  IF sub.raised
        THEN Searched(TRUE, sub.val, left, seen, count)
                @@ [values |-> values]
        ELSE LET value == sub.val
                 better == value >= best_value
                 new_value == IF better THEN value ELSE best_value
                 new_move == IF better THEN valid_moves[i] ELSE best_move
             IN  RootLoop(self, left, board, valid_moves, i + 1, new_value,
                          new_move, max(alpha, new_value),
                          Append(values, value), seen, count)

\* One turn of the loop over valid_moves of MinimaxPlayer.get_move, sub
\* being what minimax returned for move i
RootLoopBody(self, H, board, valid_moves, i, best_value, best_move, alpha, values, depths, evals, sub) ==
    LET left == Release(sub.heap, H)
        seen == depths \cup sub.depths
        count == evals + sub.evals
    IN  IF sub.raised
        THEN Searched(TRUE, sub.val, left, seen, count)
                @@ [values |-> values]
        ELSE LET value == sub.val
                 better == value > best_value
                 new_value == IF better THEN value ELSE best_value
                 new_move == IF better THEN valid_moves[i] ELSE best_move
             IN  RootLoop(self, left, board, valid_moves, i + 1, new_value,
                          new_move, max(alpha, new_value),
                          Append(values, value), seen, count)

\* The loop over valid_moves of MinimaxPlayer.get_move, from move i on;
\* values are the values of the moves scored so far.
RootLoop(self, H, board, valid_moves, i, best_value, best_move, alpha, values, depths, evals) ==
    IF i > Len(valid_moves)
    THEN Searched(FALSE, best_move, H, depths, evals) @@ [values |-> values]
    ELSE RootLoopBody(self, H, board, valid_moves, i, best_value, best_move,
                      alpha, values, depths, evals,
                      minimax(self,
                              Child(H, board, valid_moves[i],
                                    self.player_number),
                              Len(H.objs) + 1, self.depth - 1, alpha,
                              Infinity, FALSE))

\* get_move without the shortcut for a single valid move
GetMoveAmong_AlwaysSearches(self, H, board, valid_moves) ==
    IF Len(valid_moves) = 0
    THEN Searched(FALSE, NoMove, H, {}, 0) @@ [values |-> << >>]
    ELSE RootLoop(self, H, board, valid_moves, 1, -Infinity, NoMove,
                  -Infinity, << >>, {}, 0)

\* MinimaxPlayer.get_move below the first line, valid_moves being those of
\* the engine's player
GetMoveAmong(self, H, board, valid_moves) ==
    IF Len(valid_moves) = 0
    THEN Searched(FALSE, NoMove, H, {}, 0) @@ [values |-> << >>]
    ELSE IF Len(valid_moves) = 1
    THEN Searched(FALSE, valid_moves[1], H, {}, 0) @@ [values |-> << >>]
    ELSE RootLoop(self, H, board, valid_moves, 1, -Infinity, NoMove,
                  -Infinity, << >>, {}, 0)

\* MinimaxPlayer.get_move(board)
MinimaxPlayer_get_move(self, H, board) ==
    GetMoveAmong(self, H, board,
                 get_valid_moves(BoardIn(H.arrays, H.objs, board),
                                 self.player_number))

-----------------------------------------------------------------------------
(* The MCTS engine: MonteCarloNode and MCTSPlayer.  A get_move that builds *)
(* a tree runs step by step; `search` holds its locals: the tree, the      *)
(* node in hand, the iterations done and the rollout board.  The boards of *)
(* the nodes and of the rollout are objects of the heap.  wins counts in   *)
(* halves: a win adds 2, a draw 1, a loss 0.                               *)

\* MCTSPlayer(player_number, iterations)
MCTSPlayer(player_number, iterations) ==
    [player_number |-> player_number, iterations |-> iterations]

\* The call has not returned yet
Running == [type |-> "pending", raised |-> FALSE, val |-> "running"]

\* MonteCarloNode(board, parent, move) on heap H
MonteCarloNode(H, board, parent, move) ==
    [board |-> board, parent |-> parent, move |-> move, children |-> << >>,
     wins |-> 0, visits |-> 0,
     untried_moves |-> get_valid_moves(BoardIn(H.arrays, H.objs, board), None)]

\* The integer square root: the greatest r with r * r <= n, sought in lo .. hi
RECURSIVE IsqrtIn(_, _, _)
IsqrtIn(n, lo, hi) ==
    IF lo = hi
    THEN lo
    ELSE LET mid == (lo + hi + 1) \div 2
         IN  IF mid * mid <= n THEN IsqrtIn(n, mid, hi) ELSE IsqrtIn(n, lo, mid - 1)

\* math.sqrt, rounded down; 46340 is the greatest root of a 32-bit integer
isqrt(n) == IsqrtIn(n, 0, 46340)

\* Scores are counted in units of 1 / Scale
Scale == 30000

\* math.log(n) for n = 1, 2, ... in units of 1 / (Scale * Scale)
LogTable ==
    << 0, 623832463, 988751060, 1247664925, 1448494121, 1612583522,
       1751319134, 1871497388, 1977502120, 2072326584 >>

\* wins/visits + C * sqrt(log(parent visits) / visits), C = 1.41
UCB1(wins, visits, parent_visits) ==
    LET exploitation == (Scale * wins) \div (2 * visits)
        exploration ==
            (141 * isqrt(LogTable[parent_visits] \div visits))
                \div 100
    IN  exploitation + exploration

\* The loop of select_child over the children of node n, from child i on
RECURSIVE SelectFrom(_, _, _, _, _)
SelectFrom(nodes, n, i, best_score, best_child) ==
    IF i > Len(nodes[n].children)
    THEN best_child
    ELSE LET child == nodes[n].children[i]
             score == IF nodes[child].visits = 0
                      THEN Infinity
                      ELSE UCB1(nodes[child].wins, nodes[child].visits,
                                nodes[n].visits)
         IN  IF score > best_score
             THEN SelectFrom(nodes, n, i + 1, score, child)
             ELSE SelectFrom(nodes, n, i + 1, best_score, best_child)

select_child(nodes, n) == SelectFrom(nodes, n, 1, -Infinity, None)

\* list.remove(x): the list without its first x
RECURSIVE remove(_, _)
remove(list, x) ==
    IF Head(list) = x THEN Tail(list) ELSE << Head(list) >> \o remove(Tail(list), x)

\* add_child that leaves the move among the untried ones
add_child_KeepsUntried(H, nodes, n, move) ==
    LET copied == copy(H, nodes[n].board)
        board_copy == Len(copied.objs)
        moved == make_move_in(copied, board_copy, move[1], move[2], None)
        child == MonteCarloNode(moved, board_copy, n, move)
    IN  [heap |-> moved,
         nodes |-> Append([nodes EXCEPT
                              ![n].children = Append(@, Len(nodes) + 1)],
                          child)]

\* node.add_child(move) for node n: the heap and the tree it leaves; the
\* child is the last node
add_child(H, nodes, n, move) ==
    LET copied == copy(H, nodes[n].board)
        board_copy == Len(copied.objs)
        moved == make_move_in(copied, board_copy, move[1], move[2], None)
        child == MonteCarloNode(moved, board_copy, n, move)
    IN  [heap |-> moved,
         nodes |-> Append([nodes EXCEPT
                              ![n].untried_moves = remove(@, move),
                              ![n].children = Append(@, Len(nodes) + 1)],
                          child)]

RECURSIVE Backpropagated(_, _, _, _)
RECURSIVE Backpropagated_InvertsPerLevel(_, _, _, _)

\* Backpropagation that updates the node of the rollout and stops
Backpropagated_NodeOnly(nodes, n, winner, self) ==
    IF n = None
    THEN nodes
    ELSE LET result == IF winner = self.player_number THEN 2
                       ELSE IF winner = 0 THEN 1
                       ELSE 0
         IN  [nodes EXCEPT ![n].visits = @ + 1, ![n].wins = @ + result]

\* Backpropagation that takes the other side's view one level up
Backpropagated_InvertsPerLevel(nodes, n, winner, self) ==
    IF n = None
    THEN nodes
    ELSE LET result == IF winner = self.player_number THEN 2
                       ELSE IF winner = 0 THEN 1
                       ELSE 0
         IN  Backpropagated_InvertsPerLevel(
                 [nodes EXCEPT ![n].visits = @ + 1, ![n].wins = @ + result],
                 nodes[n].parent, IF winner = 0 THEN 0 ELSE 3 - winner, self)

\* The backpropagation loop from node n up: update(result) at each node
Backpropagated(nodes, n, winner, self) ==
    IF n = None
    THEN nodes
    ELSE LET result == IF winner = self.player_number THEN 2
                       ELSE IF winner = 0 THEN 1
                       ELSE 0
         IN  Backpropagated([nodes EXCEPT ![n].visits = @ + 1,
                                          ![n].wins = @ + result],
                            nodes[n].parent, winner, self)

RECURSIVE BestFrom(_, _, _, _)
RECURSIVE BestFrom_LaterChildWinsTies(_, _, _, _)

\* The final loop with >= for >: of the most visited children the last wins
BestFrom_LaterChildWinsTies(nodes, i, best_visits, best_move) ==
    IF i > Len(nodes[1].children)
    THEN best_move
    ELSE LET child == nodes[nodes[1].children[i]]
         IN  IF child.visits >= best_visits
             THEN BestFrom_LaterChildWinsTies(nodes, i + 1, child.visits, child.move)
             ELSE BestFrom_LaterChildWinsTies(nodes, i + 1, best_visits, best_move)

\* The final loop over root.children, from child i on
BestFrom(nodes, i, best_visits, best_move) ==
    IF i > Len(nodes[1].children)
    THEN best_move
    ELSE LET child == nodes[nodes[1].children[i]]
         IN  IF child.visits > best_visits
             THEN BestFrom(nodes, i + 1, child.visits, child.move)
             ELSE BestFrom(nodes, i + 1, best_visits, best_move)

NodeBoard(n) == Board(search.nodes[n].board)

\* An assignment to current_player that is lost
WithCurrentPlayer_Unchanged(H, o, player) == H

\* o.current_player = player on heap H
WithCurrentPlayer(H, o, player) ==
    [H EXCEPT !.objs[o].current_player = player]

\* get_move(board) of an MCTSPlayer, up to the loop over the iterations
MCTSGetMove(board, self) ==
    LET valid_moves == get_valid_moves(Board(board), self.player_number)
        copied == copy(Heap, board)
        board_copy == Len(copied.objs)
        mine == WithCurrentPlayer(copied, board_copy, self.player_number)
        root == MonteCarloNode(mine, board_copy, None, NoMove)
    IN  /\ call' = [op |-> "MCTSPlayer.get_move", obj |-> board, row |-> 0,
                    col |-> 0, player |-> self.player_number, self |-> self]
        /\ pre' = Heap
        /\ IF Len(valid_moves) = 0
           THEN ret' = Outcome("MCTSPlayer.get_move", Returned(NoMove))
                   /\ UNCHANGED <<arrays, objs, search>>
           ELSE IF Len(valid_moves) = 1
           THEN ret' = Outcome("MCTSPlayer.get_move", Returned(valid_moves[1]))
                   /\ UNCHANGED <<arrays, objs, search>>
           ELSE /\ ret' = Running
                /\ arrays' = mine.arrays
                /\ objs' = mine.objs
                /\ search' = [pc |-> "iterate", self |-> self,
                              nodes |-> << root >>, node |-> 1, done |-> 0,
                              board_copy |-> None, live |-> mine]

\* The head of the loop over the iterations
Iterate ==
    /\ search.pc = "iterate"
    /\ search' = [search EXCEPT
                     !.pc = IF search.done < search.self.iterations
                            THEN "select" ELSE "choose",
                     !.node = 1]
    /\ UNCHANGED <<arrays, objs, call, ret, pre>>

\* Selection: one turn of the while loop, or its end
Select ==
    /\ search.pc = "select"
    /\ LET node == search.nodes[search.node]
       IN  search' = IF node.untried_moves = << >> /\ node.children # << >>
                     THEN [search EXCEPT
                              !.node = select_child(search.nodes, search.node)]
                     ELSE [search EXCEPT !.pc = "expand"]
    /\ UNCHANGED <<arrays, objs, call, ret, pre>>

\* Expansion, with any of the untried moves, and the copy the rollout is
\* played on
Expand ==
    /\ search.pc = "expand"
    /\ LET node == search.nodes[search.node]
       IN  \E k \in 1 .. max(1, Len(node.untried_moves)) :
              LET grown == IF node.untried_moves # << >>
                           THEN add_child(Heap, search.nodes, search.node,
                                          node.untried_moves[k])
                           ELSE [heap |-> Heap, nodes |-> search.nodes]
                  at == IF node.untried_moves # << >>
                        THEN Len(grown.nodes) ELSE search.node
                  copied == copy(grown.heap, grown.nodes[at].board)
              IN  /\ arrays' = copied.arrays
                  /\ objs' = copied.objs
                  /\ search' = [search EXCEPT
                                   !.pc = "simulate", !.nodes = grown.nodes,
                                   !.node = at,
                                   !.board_copy = Len(copied.objs),
                                   !.live = grown.heap]
    /\ UNCHANGED <<call, ret, pre>>

\* The body of the simulation loop with a pass that leaves the turn where
\* it is
RolloutTurn_PassKeepsTurn(H, board_copy, k) ==
    LET b == BoardIn(H.arrays, H.objs, board_copy)
        valid_moves == get_valid_moves(b, None)
    IN  IF valid_moves = << >>
        THEN H
        ELSE make_move_in(H, board_copy, valid_moves[k][1], valid_moves[k][2],
                          None)

\* The body of the simulation loop on heap H, random.choice taking the k-th
\* valid move: the heap it leaves
RolloutTurn(H, board_copy, k) ==
    LET b == BoardIn(H.arrays, H.objs, board_copy)
        valid_moves == get_valid_moves(b, None)
    IN  IF valid_moves = << >>
        THEN [H EXCEPT !.objs[board_copy].current_player = 3 - b.current_player]
        ELSE make_move_in(H, board_copy, valid_moves[k][1], valid_moves[k][2],
                          None)

\* Simulation: one turn of the while loop, with any of the valid moves, or
\* its end
Simulate ==
    /\ search.pc = "simulate"
    /\ LET b == Board(search.board_copy)
       IN  IF is_game_over(b)
           THEN /\ search' = [search EXCEPT !.pc = "backpropagate"]
                /\ UNCHANGED <<arrays, objs>>
           ELSE \E k \in 1 .. max(1, Len(get_valid_moves(b, None))) :
                   /\ arrays' = RolloutTurn(Heap, search.board_copy, k).arrays
                   /\ objs' = RolloutTurn(Heap, search.board_copy, k).objs
                   /\ UNCHANGED search
    /\ UNCHANGED <<call, ret, pre>>

\* Backpropagation; the rollout board goes out of scope
Backpropagate ==
    /\ search.pc = "backpropagate"
    /\ LET winner == get_winner(Board(search.board_copy))
           left == Release(Heap, search.live)
       IN  /\ search' = [search EXCEPT
                            !.pc = "iterate",
                            !.nodes = Backpropagated(search.nodes, search.node,
                                                     winner, search.self),
                            !.node = None,
                            !.done = @ + 1,
                            !.board_copy = None]
           /\ arrays' = left.arrays
           /\ objs' = left.objs
    /\ UNCHANGED <<call, ret, pre>>

\* The choice of the move once the iterations are done; the tree goes out
\* of scope, ret keeps it as it was at the return
Choose ==
    /\ search.pc = "choose"
    /\ ret' = [type |-> ResultType(call.op), raised |-> FALSE,
               val |-> BestFrom(search.nodes, 1, -1, NoMove),
               nodes |-> search.nodes]
    /\ arrays' = Release(Heap, pre).arrays
    /\ objs' = Release(Heap, pre).objs
    /\ search' = NoSearch
    /\ UNCHANGED <<call, pre>>

-----------------------------------------------------------------------------
(* The engine calls *)

RecordSearch(op, board, self, depth, alpha, beta, is_maximizing, out) ==
    /\ call' = [op |-> op, obj |-> board, row |-> 0, col |-> 0,
                player |-> self.player_number, self |-> self, depth |-> depth,
                alpha |-> alpha, beta |-> beta,
                is_maximizing |-> is_maximizing]
    /\ ret' = [type |-> Outcome(op, out).type, raised |-> out.raised,
               val |-> out.val, depths |-> out.depths, evals |-> out.evals,
               values |-> out.values]
    /\ pre' = [arrays |-> arrays, objs |-> objs]
    /\ arrays' = out.heap.arrays
    /\ objs' = out.heap.objs
    /\ UNCHANGED search

\* self.get_move(board) of a MinimaxPlayer
MinimaxGetMove(board, self) ==
    RecordSearch("MinimaxPlayer.get_move", board, self, self.depth,
                 -Infinity, Infinity, TRUE,
                 MinimaxPlayer_get_move(self, Heap, board))

\* self.minimax(board, depth, alpha, beta, is_maximizing)
Minimax(board, self, depth, alpha, beta, is_maximizing) ==
    RecordSearch("minimax", board, self, depth, alpha, beta, is_maximizing,
                 minimax(self, Heap, board, depth, alpha, beta, is_maximizing)
                    @@ [values |-> << >>])

\* self.evaluate(board)
Evaluate(board, self) ==
    RecordSearch("evaluate", board, self, 0, -Infinity, Infinity, TRUE,
                 Leaf(Heap, 0, evaluate(self, Board(board)))
                    @@ [values |-> << >>])

-----------------------------------------------------------------------------
(* The callers of the engines.  The boards are the positions of recorded   *)
(* games, a make_move call for each move.                                  *)

MaxDepth == 2
MaxIterations == 4
SearchRoom == 7

\* Recorded games, each move <<row, col, player>>.  On the standard board:
\* the first leaves Black one valid move, the second leaves White none
\* while Black has some, the third ends with no White piece left.  On the
\* small board: a game to its end, White passing before the last move.
Games ==
    { [size |-> DefaultSize,
       moves |-> << <<2, 3, 1>>, <<2, 2, 2>>, <<2, 1, 1>>, <<4, 5, 1>> >>],
      [size |-> DefaultSize,
       moves |-> << <<2, 3, 1>>, <<5, 5, 1>> >>],
      [size |-> DefaultSize,
       moves |-> << <<2, 3, 1>>, <<4, 2, 2>>, <<1, 3, 2>>, <<1, 2, 1>>,
                    <<1, 1, 2>>, <<2, 5, 2>> >>],
      [size |-> SmallSize,
       moves |-> << <<0, 1, 1>>, <<0, 2, 2>>, <<0, 3, 1>>, <<2, 0, 2>>,
                    <<3, 0, 1>>, <<0, 0, 2>>, <<1, 0, 1>>, <<3, 3, 1>> >>] }

\* The positions from board b on along the moves of a recorded game, from
\* move number i
RECURSIVE PlayedFrom(_, _, _)
PlayedFrom(b, moves, i) ==
    {b.cells} \cup
       (IF i > Len(moves)
        THEN {}
        ELSE PlayedFrom(make_move(b, moves[i][1], moves[i][2],
                                  moves[i][3]).board, moves, i + 1))

\* The positions of the recorded games
GameCells ==
    UNION { PlayedFrom([size |-> game.size,
                        cells |-> InitialCells(game.size),
                        current_player |-> Black], game.moves, 1) :
            game \in Games }

\* A make_move call that places a piece and leaves a position of a recorded
\* game
CallGameMove(o) ==
    /\ Idle
    /\ \E row \in OnBoard(o), col \in OnBoard(o), player \in Players :
          /\ Succeeds(o, row, col, player)
          /\ ApplyMove(Board(o), row, col, player).cells \in GameCells
          /\ MakeMove(o, row, col, player)

\* Every move of player on b ends the game
EndsAfterMove(b, player) ==
    LET valid_moves == get_valid_moves(b, player)
    IN  \A i \in 1 .. Len(valid_moves) :
           is_game_over(ApplyMove(b, valid_moves[i][1], valid_moves[i][2],
                                  player))

Depths == 0 .. MaxDepth

FullWindow == { <<-Infinity, Infinity>> }

Windows == FullWindow \cup { <<-50, 50>> }

\* get_move of a MinimaxPlayer of any depth in Depths.  With depth 0 the
\* search of a board with two moves or more runs to the end of the game:
\* that call is made where every move ends the game.
CallMinimaxGetMove(o) ==
    /\ Idle
    /\ \E player_number \in Players, depth \in Depths :
          /\ \/ depth > 0
             \/ Len(get_valid_moves(Board(o), player_number)) <= 1
             \/ EndsAfterMove(Board(o), player_number)
          /\ MinimaxGetMove(o, MinimaxPlayer(player_number, depth))

CallMinimax(o, windows) ==
    /\ Idle
    /\ \E player_number \in Players, depth \in Depths, window \in windows,
          is_maximizing \in BOOLEAN :
          Minimax(o, MinimaxPlayer(player_number, MaxDepth), depth,
                  window[1], window[2], is_maximizing)

CallEvaluate(o) ==
    /\ Idle
    /\ \E player_number \in Players :
          Evaluate(o, MinimaxPlayer(player_number, MaxDepth))

(* SpecMinimax: the Minimax engine on the standard board *)

NextMinimax ==
    \/ CallGameMove(1)
    \/ CallMinimaxGetMove(1)
    \/ CallMinimax(1, FullWindow)
    \/ CallEvaluate(1)
    \/ Return

SpecMinimax == Init8 /\ [][NextMinimax]_vars

(* SpecPass: minimax called on the positions of the recorded games, with   *)
(* the full window and a narrow one                                        *)

NextPass ==
    \/ CallGameMove(1)
    \/ CallMinimax(1, Windows)
    \/ Return

SpecPass == Init8 /\ [][NextPass]_vars

(* SpecEngines: both engines on the small board, asked once at most        *)
(* SearchRoom cells are empty: a search then runs to the end of the game   *)
(* within few moves.                                                       *)

Late(o) == objs[o].size * objs[o].size - Pieces(o) <= SearchRoom

Iterations == 0 .. MaxIterations

CallLateMinimaxGetMove(o) ==
    /\ Idle
    /\ Late(o)
    /\ \E player_number \in Players, depth \in Depths :
          MinimaxGetMove(o, MinimaxPlayer(player_number, depth))

CallMCTSGetMove(o) ==
    /\ Idle
    /\ Late(o)
    /\ \E player_number \in Players, iterations \in Iterations :
          MCTSGetMove(o, MCTSPlayer(player_number, iterations))

NextEngines ==
    \/ CallGameMove(1)
    \/ CallLateMinimaxGetMove(1)
    \/ CallMCTSGetMove(1)
    \/ Iterate
    \/ Select
    \/ Expand
    \/ Simulate
    \/ Backpropagate
    \/ Choose
    \/ Return

SpecEngines == Init /\ [][NextEngines]_vars

(* SpecFrame: both engines on the recorded games of both boards, the       *)
(* minimax engine on every position, the MCTS engine on the late ones      *)

InitFrame == Construct(SmallSize) \/ Construct(DefaultSize)

NextFrame ==
    \/ CallGameMove(1)
    \/ CallMinimaxGetMove(1)
    \/ CallMCTSGetMove(1)
    \/ Iterate
    \/ Select
    \/ Expand
    \/ Simulate
    \/ Backpropagate
    \/ Choose
    \/ Return

SpecFrame == InitFrame /\ [][NextFrame]_vars

(* SpecEvaluate: evaluate on the positions of a long game on the standard  *)
(* board, Black and White moving in turn, in which Black takes the corners *)
(* and the edges                                                           *)

LongGame ==
    [size |-> DefaultSize,
     moves |-> << <<5, 4, 1>>, <<5, 5, 2>>, <<5, 6, 1>>, <<6, 6, 2>>, <<4, 5, 1>>,
                 <<4, 6, 2>>, <<7, 7, 1>>, <<7, 6, 2>>, <<2, 2, 1>>, <<1, 1, 2>>,
                 <<5, 7, 1>>, <<3, 5, 2>>, <<0, 0, 1>>, <<6, 7, 2>>, <<2, 6, 1>>,
                 <<3, 6, 2>>, <<2, 5, 1>>, <<1, 6, 2>>, <<0, 7, 1>>, <<3, 2, 2>>,
                 <<2, 7, 1>>, <<0, 6, 2>>, <<4, 2, 1>>, <<5, 1, 2>>, <<5, 2, 1>>,
                 <<6, 1, 2>>, <<7, 0, 1>>, <<7, 1, 2>>, <<5, 0, 1>>, <<3, 1, 2>>,
                 <<2, 1, 1>>, <<6, 0, 2>>, <<2, 3, 1>>, <<0, 1, 2>>, <<2, 0, 1>>,
                 <<6, 4, 2>>, <<6, 5, 1>>, <<1, 0, 2>>, <<7, 3, 1>>, <<6, 3, 2>>,
                 <<4, 1, 1>>, <<1, 4, 2>>, <<1, 5, 1>>, <<0, 4, 2>> >>]

\* The next move of the long game, on the board its moves so far have left
CallLongGameMove(o) ==
    /\ Idle
    /\ Pieces(o) - 4 < Len(LongGame.moves)
    /\ LET move == LongGame.moves[Pieces(o) - 4 + 1]
       IN  /\ Succeeds(o, move[1], move[2], move[3])
           /\ MakeMove(o, move[1], move[2], move[3])

NextEvaluate ==
    \/ CallLongGameMove(1)
    \/ CallEvaluate(1)
    \/ Return

SpecEvaluate == Init8 /\ [][NextEvaluate]_vars

-----------------------------------------------------------------------------
(* SpecGame: the turn loop of play_interactive_game on the small board,    *)
(* from the initial position: while the game is not over, the side to move *)
(* makes one of its valid moves, or passes when it has none.  Whoever      *)
(* plays, the loop goes on to the next turn.                               *)

\* The colour the human plays; the engine plays the other one
human_player == Black

\* A turn with valid moves: the human confirms one of them and the loop
\* calls make_move with it for human_player; the engine's get_move gives one
\* of them and the loop calls make_move with it for the side to move
CallTurnMove(o) ==
    /\ Idle
    /\ ~is_game_over(Board(o))
    /\ \E k \in 1 .. Len(get_valid_moves(Board(o), None)) :
          MakeMove(o, get_valid_moves(Board(o), None)[k][1],
                   get_valid_moves(Board(o), None)[k][2],
                   IF objs[o].current_player = human_player
                   THEN human_player ELSE None)

NextGame ==
    \/ CallTurnMove(1)
    \/ CallPass(1)
    \/ Return

\* What a turn changes: the board, and the call on record
turn == <<arrays, objs, call>>

\* The loop has a turn to take: CallTurnMove or CallPass can be taken, and
\* changes the call on record, exactly when no call is under way and the
\* game is not over
TurnPending == Idle /\ ~is_game_over(Board(1))

\* The loop goes on.  Nobody quits: a turn that is due is taken in the end
\* (weak fairness of the turn, its enabling condition written out as
\* TurnPending), and the loop comes back from each call.
GoesOn ==
    /\ []<>(~TurnPending) \/ []<><<CallTurnMove(1) \/ CallPass(1)>>_turn
    /\ WF_turn(Return)

SpecGame == Init /\ [][NextGame]_vars /\ GoesOn

-----------------------------------------------------------------------------
(* The claims on the engines *)

MinimaxAsked == call.op = "MinimaxPlayer.get_move"
MCTSAsked == call.op = "MCTSPlayer.get_move"

\* The valid moves of the engine's player on the board get_move was given
MovesAtCall == get_valid_moves(Before, call.player)

\* C11: a get_move of either engine on a board where the engine's player has
\* no valid move returns None without raising, and on a board where it has
\* exactly one returns that move; the Minimax engine then has called neither
\* minimax nor evaluate, the MCTS engine has built no tree and played no
\* rollout (it has allocated nothing and returns at once).
C11_NoSearchWithoutChoice ==
    (MinimaxAsked \/ MCTSAsked) /\ Len(MovesAtCall) <= 1
       => /\ search.pc = "none"
          /\ ~ret.raised
          /\ ret.val = IF Len(MovesAtCall) = 0 THEN NoMove ELSE MovesAtCall[1]
          /\ Heap = pre
          /\ MinimaxAsked => ret.depths = {} /\ ret.evals = 0

\* C11 witness: an MCTS engine set for some iterations has returned the one
\* valid move of its player.
C11_Witness ==
    /\ MCTSAsked
    /\ call.self.iterations > 0
    /\ Len(MovesAtCall) = 1
    /\ ret.val = MovesAtCall[1]

\* The board get_move scores for move i: a copy of the board it was given,
\* with the move made by the engine's player
ChildHeap(i) ==
    LET copied == copy(pre, call.obj)
    IN  make_move_in(copied, Len(copied.objs), MovesAtCall[i][1],
                     MovesAtCall[i][2], call.player)

\* The greatest of -Infinity and the first n of values
RECURSIVE BestOf(_, _)
BestOf(values, n) ==
    IF n = 0 THEN -Infinity ELSE max(BestOf(values, n - 1), values[n])

Searching == MinimaxAsked /\ Len(MovesAtCall) >= 2 /\ ~ret.raised

\* C12: a Minimax get_move on a board with two valid moves or more scores
\* every move, in the order of get_valid_moves, none cut off: move i with
\* minimax(child, depth - 1, alpha, inf, False), alpha being the best value
\* of the moves before it (-inf for the first).  It returns the move whose
\* value is greater than the value of every earlier move and not less than
\* the value of any later one.
C12_FirstBestMove ==
    Searching
       => /\ Len(ret.values) = Len(MovesAtCall)
          /\ \A i \in 1 .. Len(MovesAtCall) :
                ret.values[i] =
                    minimax(call.self, ChildHeap(i), Len(ChildHeap(i).objs),
                            call.self.depth - 1, BestOf(ret.values, i - 1),
                            Infinity, FALSE).val
          /\ \E k \in 1 .. Len(MovesAtCall) :
                /\ ret.val = MovesAtCall[k]
                /\ \A j \in 1 .. k - 1 : ret.values[j] < ret.values[k]
                /\ \A j \in k + 1 .. Len(MovesAtCall) :
                      ret.values[j] <= ret.values[k]

\* C12 witness: a search of depth 2 has returned the first move, a later
\* move having the same value.
C12_Witness ==
    /\ Searching
    /\ call.self.depth = 2
    /\ ret.val = MovesAtCall[1]
    /\ \E j \in 2 .. Len(MovesAtCall) : ret.values[j] = ret.values[1]

\* The greatest and the least of a set of numbers
Greatest(S) == CHOOSE v \in S : \A w \in S : w <= v
Least(S) == CHOOSE v \in S : \A w \in S : v <= w

\* The board b with the move valid_moves[i] made by player
ChildOf(b, valid_moves, i, player) ==
    ApplyMove(b, valid_moves[i][1], valid_moves[i][2], player)

\* Depth-limited minimax with no cutoff: the same end test, the same
\* evaluate, the same pass rule, every move of every node searched
RECURSIVE PlainMinimax(_, _, _, _)
PlainMinimax(self, b, depth, is_maximizing) ==
    IF depth = 0 \/ is_game_over(b)
    THEN evaluate(self, b).val
    ELSE LET actor == IF is_maximizing THEN self.player_number
                      ELSE 3 - self.player_number
             valid_moves == get_valid_moves(b, actor)
             evals == { PlainMinimax(self, ChildOf(b, valid_moves, i, actor),
                                     depth - 1, ~is_maximizing) :
                        i \in 1 .. Len(valid_moves) }
         IN  IF valid_moves = << >>
             THEN PlainMinimax(self, [b EXCEPT !.current_player = 3 - actor],
                               depth - 1, ~is_maximizing)
             ELSE IF is_maximizing THEN Greatest(evals) ELSE Least(evals)

\* The number of evaluate calls of that search
RECURSIVE PlainEvals(_, _, _, _)
PlainEvals(self, b, depth, is_maximizing) ==
    IF depth = 0 \/ is_game_over(b)
    THEN 1
    ELSE LET actor == IF is_maximizing THEN self.player_number
                      ELSE 3 - self.player_number
             valid_moves == get_valid_moves(b, actor)
             RECURSIVE Sum(_)
             Sum(i) == IF i = 0 THEN 0
                       ELSE Sum(i - 1)
                               + PlainEvals(self, ChildOf(b, valid_moves, i, actor),
                                            depth - 1, ~is_maximizing)
         IN  IF valid_moves = << >>
             THEN PlainEvals(self, [b EXCEPT !.current_player = 3 - actor],
                             depth - 1, ~is_maximizing)
             ELSE Sum(Len(valid_moves))

\* The value of move i of get_move with no cutoff below it
PlainValue(i) ==
    PlainMinimax(call.self, ChildOf(Before, MovesAtCall, i, call.player),
                 call.self.depth - 1, FALSE)

MinimaxCalled == call.op = "minimax"

FullWindowCall == call.alpha = -Infinity /\ call.beta = Infinity

\* C13: minimax(board, depth, -inf, inf, is_maximizing) returns the value of
\* the depth-limited minimax without cutoffs, and get_move returns the first
\* move whose value without cutoffs is the greatest.
C13_PruningKeepsResult ==
    /\ MinimaxCalled /\ FullWindowCall /\ ~ret.raised
          => ret.val = PlainMinimax(call.self, Before, call.depth,
                                    call.is_maximizing)
    /\ Searching
          => \E k \in 1 .. Len(MovesAtCall) :
                /\ ret.val = MovesAtCall[k]
                /\ \A j \in 1 .. k - 1 : PlainValue(j) < PlainValue(k)
                /\ \A j \in k + 1 .. Len(MovesAtCall) :
                      PlainValue(j) <= PlainValue(k)

\* C13 witness: a minimax call of depth 2 with the full window has returned
\* after fewer evaluate calls than the search without cutoffs makes.
C13_Witness ==
    /\ MinimaxCalled
    /\ FullWindowCall
    /\ call.depth = 2
    /\ ret.evals < PlainEvals(call.self, Before, call.depth, call.is_maximizing)

EvaluateCalled == call.op = "evaluate"

Abs(v) == IF v < 0 THEN -v ELSE v

\* C14: evaluate returns 10000 on a game-over board won by the engine's
\* player, 0 on a drawn one, -10000 on a lost one, and on a standard board
\* where the game is not over a value strictly between -10000 and 10000.
C14_TerminalValuesDominate ==
    EvaluateCalled /\ ~ret.raised
       => IF is_game_over(Before)
          THEN ret.val = IF get_winner(Before) = call.player THEN 10000
                         ELSE IF get_winner(Before) = 0 THEN 0
                         ELSE -10000
          ELSE Before.size = DefaultSize => Abs(ret.val) < 10000


\* An MCTSPlayer.get_move has returned after running its iterations
Chosen == MCTSAsked /\ search.pc = "none" /\ Len(MovesAtCall) > 1

\* The root children of the tree at the return, and the visits of the i-th
RootChildren == ret.nodes[1].children

ChildAt(i) == ret.nodes[RootChildren[i]]

\* C15: once the iterations have run, MCTSPlayer.get_move returns the move of
\* the most visited root child, the earliest in root.children among the most
\* visited ones, whatever the wins of the children; a root without children
\* gives no move.
C15_MostVisitedFirstChild ==
    Chosen
       => IF RootChildren = << >>
          THEN ret.val = NoMove
          ELSE \E i \in 1 .. Len(RootChildren) :
                  /\ ret.val = ChildAt(i).move
                  /\ \A j \in 1 .. Len(RootChildren) :
                        /\ ChildAt(j).visits <= ChildAt(i).visits
                        /\ j < i => ChildAt(j).visits < ChildAt(i).visits

\* The first root child is returned; a later one has as many visits and
\* more wins
C15_Witness ==
    /\ Chosen
    /\ Len(RootChildren) > 1
    /\ ret.val = ChildAt(1).move
    /\ \E j \in 2 .. Len(RootChildren) :
          /\ ChildAt(j).visits = ChildAt(1).visits
          /\ ChildAt(j).wins > ChildAt(1).wins

\* The cells of the board of node n of the running search
NodeArray(n) == objs[search.nodes[n].board].board

\* The boards of the running search: of the nodes, and of the rollout
SearchBoards ==
    { search.nodes[n].board : n \in 1 .. Len(search.nodes) }
        \cup (IF search.board_copy = None THEN {} ELSE {search.board_copy})

\* The caller's board is as it was at the call
CallerBoardKept == (MinimaxAsked \/ MCTSAsked) => After = Before

\* No two boards of the search are one object or share their cells, and none
\* is the caller's board or shares its cells
NoAliasing ==
    search.pc # "none"
       => /\ \A n, m \in 1 .. Len(search.nodes) :
                n # m => /\ search.nodes[n].board # search.nodes[m].board
                         /\ NodeArray(n) # NodeArray(m)
          /\ \A b \in SearchBoards :
                /\ b # call.obj
                /\ objs[b].board # objs[call.obj].board
                /\ b # search.board_copy /\ search.board_copy # None
                      => objs[b].board # objs[search.board_copy].board

\* A step of the search leaves every node and its board as they are, but for
\* the statistics and the lists of the node
NodeBoardsKept ==
    search.pc # "none" /\ search'.pc # "none"
       => \A n \in 1 .. Len(search.nodes) :
             /\ search'.nodes[n].board = search.nodes[n].board
             /\ BoardIn(arrays', objs', search.nodes[n].board) = NodeBoard(n)

\* C16: a get_move of either engine leaves the caller's board (cells and
\* current_player) as it was at the call, during the search and on return,
\* for every depth and number of iterations; and in the MCTS tree the board of
\* a node never changes once the node exists: the boards of the nodes, of the
\* rollout and of the caller are distinct objects over distinct cells.
C16_BoardsNeverShared ==
    /\ [](CallerBoardKept /\ NoAliasing)
    /\ [][NodeBoardsKept]_vars

\* An MCTSPlayer.get_move has returned after all its iterations, with a tree
\* two levels deep, and the caller's board is as it was
C16_Witness ==
    /\ Chosen
    /\ call.self.iterations = MaxIterations
    /\ \E n \in 1 .. Len(ret.nodes) :
          ret.nodes[n].parent # None /\ ret.nodes[n].parent # 1
    /\ After = Before
    /\ Heap = pre

\* The side to move at the ply of the minimax call
Actor == IF call.is_maximizing THEN call.player ELSE 3 - call.player

\* minimax was called where the game is not over, depth is not 0 and the
\* side to move has no valid move
PassCalled ==
    /\ MinimaxCalled
    /\ ~is_game_over(Before)
    /\ call.depth # 0
    /\ get_valid_moves(Before, Actor) = << >>

\* The heap of the call with the turn of its board handed to the other side
PassedHeap == [pre EXCEPT !.objs[call.obj].current_player = 3 - Actor]

\* minimax on that board, one ply less deep, for the other side
AfterPass ==
    minimax(call.self, PassedHeap, call.obj, call.depth - 1, call.alpha,
            call.beta, ~call.is_maximizing)

\* C17: where the game is not over, depth is not 0 and the side to move has
\* no valid move, minimax returns what minimax returns on the board with the
\* same cells and the turn of the other side, with depth - 1, the same alpha
\* and beta and the flag inverted; the board of the call is left as it was.
C17_PassConsumesDepth ==
    PassCalled
       => /\ ret.raised = AfterPass.raised
          /\ ret.val = AfterPass.val
          /\ ret.evals = AfterPass.evals
          /\ ret.depths = {call.depth} \cup AfterPass.depths
          /\ Heap = pre

\* A pass at the greatest depth under the narrow window
C17_Witness ==
    /\ PassCalled
    /\ call.depth = MaxDepth
    /\ <<call.alpha, call.beta>> \notin FullWindow
    /\ ~ret.raised
    /\ ret.val = AfterPass.val
    /\ After = Before

\* C18: in a get_move of a MinimaxPlayer of depth d >= 0 every minimax call
\* gets a depth in 0 .. d: no depth is negative and no board more than d
\* plies below the board of the call is searched or evaluated.
C18_DepthBounded ==
    MinimaxAsked => \A depth \in ret.depths : 0 <= depth /\ depth <= call.depth

\* The nodes from node n up to the root
RECURSIVE ParentChain(_, _)
ParentChain(nodes, n) ==
    IF n = None THEN {} ELSE {n} \cup ParentChain(nodes, nodes[n].parent)

\* The reward of a rollout that ended on board b, in halves, for the player
\* of the engine
Reward(b, player_number) ==
    LET mine == Cardinality({x \in Cells(b.size) : b.cells[x] = player_number})
        theirs == Cardinality({x \in Cells(b.size) :
                                  b.cells[x] = 3 - player_number})
    IN  IF mine > theirs THEN 2 ELSE IF mine = theirs THEN 1 ELSE 0

\* The backpropagation step of an iteration
BackpropagationStep ==
    search.pc = "backpropagate"
       => LET chain == ParentChain(search.nodes, search.node)
              reward == Reward(Board(search.board_copy),
                               search.self.player_number)
          IN  /\ 1 \in chain
              /\ Len(search'.nodes) = Len(search.nodes)
              /\ \A n \in 1 .. Len(search.nodes) :
                    search'.nodes[n] =
                        IF n \in chain
                        THEN [search.nodes[n] EXCEPT !.visits = @ + 1,
                                                     !.wins = @ + reward]
                        ELSE search.nodes[n]

\* C19: the backpropagation of an MCTS iteration adds 1 to visits and the
\* reward to wins at the nodes from the node the rollout started at up to the
\* root, and changes nothing else in the tree; the reward is 1 (a half: 2) if
\* the final board of the rollout has more pieces of the engine's player, a
\* half if as many, 0 otherwise, the same at every level.
C19_BackpropagationOnPath == [][BackpropagationStep]_vars

\* After the last backpropagation: a node two levels below the root with one
\* visit and a win, its parent with two visits and that one win (its own
\* rollout was lost), the root visited once an iteration, and a node off
\* the path with its one visit
C19_Witness ==
    /\ search.pc = "iterate"
    /\ search.done = MaxIterations
    /\ \E n \in 1 .. Len(search.nodes) :
          LET parent == search.nodes[n].parent
          IN  /\ parent \notin {None, 1}
              /\ search.nodes[n].visits = 1
              /\ search.nodes[n].wins = 2
              /\ search.nodes[parent].visits = 2
              /\ search.nodes[parent].wins = 2
              /\ search.nodes[1].visits = search.done
              /\ \E m \in 1 .. Len(search.nodes) :
                    /\ m \notin {1, n, parent}
                    /\ search.nodes[m].visits = 1

\* The elements of a list
Elements(list) == { list[i] : i \in 1 .. Len(list) }

NoDuplicates(list) == Cardinality(Elements(list)) = Len(list)

\* The moves of the children of node n, in the order of the children
ChildMoves(nodes, n) ==
    [i \in 1 .. Len(nodes[n].children) |-> nodes[nodes[n].children[i]].move]

\* The children and the untried moves of every node of the running search
\* share out the valid moves of the side to move on the node's board
MovesSharedOut ==
    search.pc # "none"
       => \A n \in 1 .. Len(search.nodes) :
             LET untried_moves == search.nodes[n].untried_moves
                 moves == ChildMoves(search.nodes, n)
             IN  /\ NoDuplicates(untried_moves)
                 /\ NoDuplicates(moves)
                 /\ Elements(untried_moves) \cap Elements(moves) = {}
                 /\ Elements(untried_moves) \cup Elements(moves) =
                        Elements(get_valid_moves(NodeBoard(n), None))
                 /\ \A i \in 1 .. Len(search.nodes[n].children) :
                       search.nodes[search.nodes[n].children[i]].parent = n

\* The expansion step: with untried moves, one of them leaves the list and
\* one child is appended, its board the node's board after that move of the
\* side to move there; without, the tree stays as it is
ExpansionStep ==
    search.pc = "expand"
       => LET n == search.node
              node == search.nodes[n]
              child == Len(search.nodes) + 1
          IN  IF node.untried_moves = << >>
              THEN search'.nodes = search.nodes /\ search'.node = n
              ELSE /\ Len(search'.nodes) = child
                   /\ search'.node = child
                   /\ \E k \in 1 .. Len(node.untried_moves) :
                         LET move == node.untried_moves[k]
                         IN  /\ search'.nodes[n] =
                                   [node EXCEPT
                                       !.untried_moves =
                                           SubSeq(@, 1, k - 1) \o
                                           SubSeq(@, k + 1, Len(@)),
                                       !.children = Append(@, child)]
                             /\ search'.nodes[child].move = move
                             /\ search'.nodes[child].parent = n
                             /\ search'.nodes[child].children = << >>
                             /\ search'.nodes[child].visits = 0
                             /\ BoardIn(arrays', objs',
                                        search'.nodes[child].board) =
                                   make_move(NodeBoard(n), move[1], move[2],
                                             NodeBoard(n).current_player).board
                   /\ \A m \in 1 .. Len(search.nodes) :
                         m # n => search'.nodes[m] = search.nodes[m]

\* The selection step: it goes down to a child exactly from a node without
\* untried moves that has children
SelectionStep ==
    search.pc = "select"
       => LET node == search.nodes[search.node]
          IN  IF node.untried_moves = << >> /\ node.children # << >>
              THEN search'.node \in Elements(node.children)
              ELSE search'.node = search.node

\* C20: throughout an MCTSPlayer.get_move, at every node the moves of the
\* children and the untried moves are disjoint, without duplicates, and
\* together the valid moves of the side to move on the node's board; an
\* expansion takes one move from untried_moves and appends one child, whose
\* board is the node's board with that move made by the side to move there;
\* selection goes down from a node only when it has no untried move and has
\* children.
C20_TreeSharesOutMoves ==
    /\ []MovesSharedOut
    /\ [][ExpansionStep /\ SelectionStep]_vars

\* A node below the root has a child and untried moves left, the root none
C20_Witness ==
    /\ search.pc = "iterate"
    /\ search.nodes[1].untried_moves = << >>
    /\ \E n \in 2 .. Len(search.nodes) :
          /\ search.nodes[n].children # << >>
          /\ search.nodes[n].untried_moves # << >>
          /\ NodeBoard(search.nodes[n].children[1]).cells # NodeBoard(n).cells

\* The simulation loop is running
Rolling == search.pc = "simulate"

\* The empty cells of board b
Empties(b) == b.size * b.size - (count_pieces(b)[1] + count_pieces(b)[2])

\* The turns the simulation loop has left at most on board b: a move for
\* each empty cell, a pass before each, less the pass the side to move does
\* not need
TurnsLeft(b) ==
    2 * Empties(b) + (IF has_valid_moves(b, b.current_player) THEN 0 ELSE 1)

\* The simulation loop is never stuck: while the game is not over, a turn
\* of the loop, whichever move random.choice takes, changes the rollout board
RolloutGoesOn ==
    Rolling /\ ~is_game_over(Board(search.board_copy))
       => \A k \in 1 .. max(1, Len(get_valid_moves(Board(search.board_copy),
                                                    None))) :
             RolloutTurn(Heap, search.board_copy, k) # Heap

\* One turn of the simulation loop: on a finished game the loop ends and the
\* board stays; with no valid move of the side to move only the turn goes
\* over, to a side that has one; otherwise one valid move of the side to move
\* is made, which fills one empty cell
RolloutStep ==
    Rolling
       => LET b == Board(search.board_copy)
              after == BoardIn(arrays', objs', search.board_copy)
              player == b.current_player
          IN  IF is_game_over(b)
              THEN search'.pc = "backpropagate" /\ after = b
              ELSE /\ search'.pc = "simulate"
                   /\ search'.board_copy = search.board_copy
                   /\ IF ~has_valid_moves(b, player)
                      THEN /\ after.cells = b.cells
                           /\ after.current_player = 3 - player
                           /\ has_valid_moves(after, after.current_player)
                      ELSE \E row \in 0 .. b.size - 1, col \in 0 .. b.size - 1 :
                              /\ is_valid_move(b, row, col, player).val
                              /\ after = ApplyMove(b, row, col, player)
                              /\ b.cells[<<row, col>>] = Empty
                              /\ after.cells[<<row, col>>] = player
                              /\ Empties(after) = Empties(b) - 1
                   /\ TurnsLeft(after) < TurnsLeft(b)
                   /\ TurnsLeft(after) >= 0

\* C21: every rollout of the MCTS engine ends, on a board where the game is
\* over: each turn of the simulation loop either makes a move that is valid
\* for the side to move, filling one empty cell (so there are no more moves
\* than empty cells), or, when that side has no valid move, flips
\* current_player and changes no cell, after which the other side has a valid
\* move (no two passes in a row); no turn leaves the board as it is, each
\* turn lowers the number of turns left, which is never negative, and the
\* loop is left exactly when is_game_over().
C21_RolloutTerminates ==
    /\ []RolloutGoesOn
    /\ [][RolloutStep]_vars

\* A rollout that has made a move stands before a pass
C21_Witness ==
    /\ Rolling
    /\ ~is_game_over(Board(search.board_copy))
    /\ ~has_valid_moves(Board(search.board_copy),
                        Board(search.board_copy).current_player)
    /\ Empties(Board(search.board_copy)) < Empties(NodeBoard(search.node))

\* The root of the running search stands on the board get_move was given,
\* with the engine's player to move, and the moves of its children are valid
\* moves of that player on the board get_move was given
RootOfPlayer ==
    search.pc # "none"
       => /\ NodeBoard(1).cells = Before.cells
          /\ NodeBoard(1).current_player = call.player
          /\ search.self.player_number = call.player
          /\ \A i \in 1 .. Len(search.nodes[1].children) :
                LET child == search.nodes[search.nodes[1].children[i]]
                IN  /\ child.move \in Elements(MovesAtCall)
                    /\ is_valid_move(Before, child.move[1], child.move[2],
                                     call.player).val

\* The move returned after one iteration or more is a valid move of the
\* engine's player on the board get_move was given
MoveOfPlayer ==
    Chosen /\ call.self.iterations >= 1
       => /\ ~ret.raised
          /\ ret.val # NoMove
          /\ ret.val \in Elements(MovesAtCall)
          /\ is_valid_move(Before, ret.val[1], ret.val[2], call.player).val

\* C22: the root of an MCTS search stands on a copy of the input board with
\* current_player set to the engine's player, whoever is to move on the input
\* board; the moves of the root's children are valid moves of the engine's
\* player on the input board, and with two or more such moves and one
\* iteration or more get_move returns one of them, never None.
C22_RootMovesOfEngine == RootOfPlayer /\ MoveOfPlayer

\* An engine asked on a board where the other side is to move has returned,
\* after an iteration or more, a move that is no valid move of that side
C22_Witness ==
    /\ Chosen
    /\ call.self.iterations >= 1
    /\ Before.current_player # call.player
    /\ ret.val \in Elements(MovesAtCall)
    /\ ret.val \notin Elements(get_valid_moves(Before, Before.current_player))

\* The visits of the children of node n, summed from child i on
RECURSIVE ChildVisitsFrom(_, _, _)
ChildVisitsFrom(nodes, n, i) ==
    IF i > Len(nodes[n].children)
    THEN 0
    ELSE nodes[nodes[n].children[i]].visits + ChildVisitsFrom(nodes, n, i + 1)

\* The statistics of a tree after done iterations: the root has been visited
\* in each, through one of its children; every node has been visited, and
\* won at most as often (wins count in halves); a node below the root has
\* been visited once as a leaf and then through its children
TreeCounted(nodes, done) ==
    /\ nodes[1].visits = done
    /\ ChildVisitsFrom(nodes, 1, 1) = done
    /\ \A n \in 1 .. Len(nodes) :
          /\ nodes[n].visits >= 1
          /\ 0 <= nodes[n].wins
          /\ nodes[n].wins <= 2 * nodes[n].visits
          /\ n # 1 /\ nodes[n].children # << >>
                => nodes[n].visits = 1 + ChildVisitsFrom(nodes, n, 1)

\* Between two iterations, and at the return
CountedAfterIteration ==
    /\ search.pc = "iterate" /\ search.done >= 1
          => TreeCounted(search.nodes, search.done)
    /\ Chosen /\ call.self.iterations >= 1
          => TreeCounted(ret.nodes, call.self.iterations)

\* select_child is about to run on the node in hand
Selecting ==
    /\ search.pc = "select"
    /\ search.nodes[search.node].untried_moves = << >>
    /\ search.nodes[search.node].children # << >>

\* select_child finds its node and all the children of it visited
SelectsAmongVisited ==
    Selecting
       => /\ search.nodes[search.node].visits >= 1
          /\ \A i \in 1 .. Len(search.nodes[search.node].children) :
                search.nodes[search.nodes[search.node].children[i]].visits >= 1

\* C23: after each completed iteration k of an MCTS search on a root with two
\* or more valid moves, root.visits = k = the sum of the visits of the root's
\* children, every node has visits >= 1 and 0 <= wins <= visits, and every
\* node below the root that has children has visits = 1 + the sum of its
\* children's visits; whenever select_child runs, its node and every child of
\* it have visits >= 1, so UCB1 divides by no zero, takes no logarithm of
\* zero, and the zero-visit case does not occur.
C23_VisitsAddUp == CountedAfterIteration /\ SelectsAmongVisited

\* select_child is about to run on the root of a tree in which a node below
\* the root has children
C23_Witness ==
    /\ Selecting
    /\ search.node = 1
    /\ \E n \in 2 .. Len(search.nodes) : search.nodes[n].children # << >>

\* The board of the game
GameBoard == Board(1)

\* The game is over
GameOver == is_game_over(GameBoard)

\* The moves made so far in a game from the initial position: every move
\* adds one piece to the four of the start
MovesMade(b) == count_pieces(b)[1] + count_pieces(b)[2] - 4

\* The states of a game: every cell holds Empty, Black or White, the turn is
\* Black's or White's, and no more moves were made than the board had empty
\* cells at the start
GameTyped ==
    /\ \A pos \in DOMAIN GameBoard.cells :
          GameBoard.cells[pos] \in {Empty, Black, White}
    /\ GameBoard.current_player \in {Black, White}
    /\ MovesMade(GameBoard) >= 0
    /\ MovesMade(GameBoard) <= GameBoard.size * GameBoard.size - 4
    /\ MovesMade(GameBoard) + Empties(GameBoard)
          = GameBoard.size * GameBoard.size - 4

\* One step of the game: a turn is taken only while the game is not over;
\* it is a valid move of the side to move, which make_move accepts, placing
\* one piece on an empty cell and handing the turn over, or, when the side
\* to move has no valid move, a pass that changes no cell and hands the turn
\* to a side that has a valid move; each turn lowers the number of turns
\* left.  Taking the result of the call leaves the board as it is.
GameStep ==
    LET b == GameBoard
        after == BoardIn(arrays', objs', 1)
        player == b.current_player
    IN  IF ~Idle
        THEN after = b /\ call' = NoCall
        ELSE /\ ~is_game_over(b)
             /\ call'.obj = 1
             /\ IF has_valid_moves(b, player)
                THEN /\ call'.op = "make_move"
                     /\ call'.player = (IF player = human_player THEN player ELSE None)
                     /\ ret' = [type |-> "bool", raised |-> FALSE, val |-> TRUE]
                     /\ is_valid_move(b, call'.row, call'.col, player).val
                     /\ b.cells[<<call'.row, call'.col>>] = Empty
                     /\ after.cells[<<call'.row, call'.col>>] = player
                     /\ after = ApplyMove(b, call'.row, call'.col, player)
                     /\ after.current_player = 3 - player
                     /\ Empties(after) = Empties(b) - 1
                     /\ MovesMade(after) = MovesMade(b) + 1
                ELSE /\ call'.op = "pass"
                     /\ after.cells = b.cells
                     /\ after.current_player = 3 - player
                     /\ has_valid_moves(after, after.current_player)
             /\ TurnsLeft(after) < TurnsLeft(b)
             /\ TurnsLeft(after) >= 0

====
